---- MODULE Spec2Model ----
(***************************************************************************)
(* A model of brreg_lookup.py: the relevance scoring of TextMatcher, the   *)
(* two-tier lookup and the two-endpoint search of BRREGClient, and the     *)
(* command line driver main().                                             *)
(*                                                                         *)
(* Strings are sequences of one-character strings.  Scores are exact       *)
(* rationals, written as integers in units of 1/ScoreUnit.                 *)
(***************************************************************************)
EXTENDS Integers, Sequences, FiniteSets, TLC

VARIABLES
    pc,          \* position of the operation that is running
    argv,        \* the parsed command line: [number, name]
    query,       \* the string the running operation was called with
    cand,        \* the candidate name (TextMatcher calls only)
    http,        \* the outbound requests made so far, each with its answer
    out,         \* the messages printed so far
    ret,         \* the value the operation returned (or the exception it raised)
    exitCode,    \* the process exit code, once main() has ended
    address,     \* the Address being formatted (Address.format calls only)
    jsonErrIsRequestException
                 \* whether this build's requests library raises its JSON
                 \* decoding error as a subclass of RequestException

vars ==
    <<pc, argv, query, cand, http, out, ret, exitCode, address, jsonErrIsRequestException>>

-----------------------------------------------------------------------------
(* Bounds of the model.                                                    *)

MaxQueryLen == 3
MaxNameLen == 5

\* The characters strings are drawn from: a lower-case letter, an upper-case
\* letter (of another word) and the space.
Chars == {"a", "B", " "}

\* The strings over chars of length at most n.
RECURSIVE StringsUpTo(_, _)
StringsUpTo(chars, n) ==
    IF n = 0 THEN {<<>>}
    ELSE LET shorter == StringsUpTo(chars, n - 1)
         IN  shorter \cup {Append(s, c) : s \in {t \in shorter : Len(t) = n - 1}, c \in chars}

-----------------------------------------------------------------------------
(* Python's str operations.                                                *)

IsSpace(c) == c = " "

LowerChar(c) ==
    CASE c = "A" -> "a"
      [] c = "B" -> "b"
      [] OTHER -> c

UpperChar(c) ==
    CASE c = "a" -> "A"
      [] c = "b" -> "B"
      [] OTHER -> c

\* str.lower()
Lower(s) == [i \in 1..Len(s) |-> LowerChar(s[i])]

\* str.upper()
Upper(s) == [i \in 1..Len(s) |-> UpperChar(s[i])]

RECURSIVE LStrip(_)
LStrip(s) == IF s # <<>> /\ IsSpace(Head(s)) THEN LStrip(Tail(s)) ELSE s

RECURSIVE RStrip(_)
RStrip(s) ==
    IF s # <<>> /\ IsSpace(s[Len(s)]) THEN RStrip(SubSeq(s, 1, Len(s) - 1)) ELSE s

\* str.strip()
Strip(s) == RStrip(LStrip(s))

\* sub in s
Contains(sub, s) ==
    \E i \in 0..(Len(s) - Len(sub)) : SubSeq(s, i + 1, i + Len(sub)) = sub

\* str.split(): the maximal runs of non-whitespace characters, in order.
RECURSIVE SplitFrom(_, _, _)
SplitFrom(s, word, acc) ==
    IF s = <<>> THEN (IF word = <<>> THEN acc ELSE Append(acc, word))
    ELSE IF IsSpace(Head(s))
         THEN SplitFrom(Tail(s), <<>>, IF word = <<>> THEN acc ELSE Append(acc, word))
         ELSE SplitFrom(Tail(s), Append(word, Head(s)), acc)

Split(s) == SplitFrom(s, <<>>, <<>>)

\* set(seq)
ToSet(seq) == {seq[i] : i \in 1..Len(seq)}

Min(a, b) == IF a <= b THEN a ELSE b

-----------------------------------------------------------------------------
(* Scores.                                                                 *)

RECURSIVE Gcd(_, _)
Gcd(a, b) == IF b = 0 THEN a ELSE Gcd(b, a % b)

RECURSIVE LcmUpTo(_)
LcmUpTo(n) == IF n <= 1 THEN 1 ELSE LET l == LcmUpTo(n - 1) IN (l * n) \div Gcd(l, n)

\* 1.0 in score units: every ratio 2*M/T with T <= MaxQueryLen + MaxNameLen
\* and every hundredth is a whole number of units.
ScoreUnit == 100 * LcmUpTo(MaxQueryLen + MaxNameLen)

WORD_SUBSET_BONUS == (20 * ScoreUnit) \div 100
WORD_ORDER_BONUS == (10 * ScoreUnit) \div 100

-----------------------------------------------------------------------------
(* difflib.SequenceMatcher(None, a, b).ratio()                             *)

\* The blocks of size k common to a[alo:ahi] and b[blo:bhi], as pairs of
\* 0-based start positions.
Blocks(a, b, alo, ahi, blo, bhi, k) ==
    {p \in (alo..(ahi - k)) \X (blo..(bhi - k)) :
        SubSeq(a, p[1] + 1, p[1] + k) = SubSeq(b, p[2] + 1, p[2] + k)}

Largest(ks) == CHOOSE k \in ks : \A k2 \in ks : k2 <= k
Smallest(ks) == CHOOSE k \in ks : \A k2 \in ks : k <= k2

\* Of the blocks ps (all of one size) the one starting earliest in a, and
\* of those the one starting earliest in b.
EarliestIn(ps, i0) == [i |-> i0, j |-> Smallest({p[2] : p \in {q \in ps : q[1] = i0}})]
Earliest(ps) == EarliestIn(ps, Smallest({p[1] : p \in ps}))

LongestBlocks(a, b, alo, ahi, blo, bhi, ks) ==
    IF ks = {} THEN {} ELSE Blocks(a, b, alo, ahi, blo, bhi, Largest(ks))

\* find_longest_match(alo, ahi, blo, bhi) on 0-based half-open ranges: the
\* longest block a[i:i+k] = b[j:j+k]; of those the one starting earliest in
\* a, and of those the one starting earliest in b.
LongestMatchAmong(alo, blo, ks, ps) ==
    IF ks = {} THEN [i |-> alo, j |-> blo, size |-> 0]
    ELSE [i |-> Earliest(ps).i, j |-> Earliest(ps).j, size |-> Largest(ks)]

LongestMatchOfSizes(a, b, alo, ahi, blo, bhi, ks) ==
    LongestMatchAmong(alo, blo, ks, LongestBlocks(a, b, alo, ahi, blo, bhi, ks))

FindLongestMatch(a, b, alo, ahi, blo, bhi) ==
    LongestMatchOfSizes(a, b, alo, ahi, blo, bhi,
        {k \in 1..Min(ahi - alo, bhi - blo) : Blocks(a, b, alo, ahi, blo, bhi, k) # {}})

\* get_matching_blocks(): the total size of the blocks found by matching
\* the longest block m and then, recursively, the pieces left and right of it.
RECURSIVE MatchedChars(_, _, _, _, _, _)
MatchedAround(a, b, alo, ahi, blo, bhi, m) ==
    IF m.size = 0 THEN 0
    ELSE m.size
         + (IF alo < m.i /\ blo < m.j
            THEN MatchedChars(a, b, alo, m.i, blo, m.j) ELSE 0)
         + (IF m.i + m.size < ahi /\ m.j + m.size < bhi
            THEN MatchedChars(a, b, m.i + m.size, ahi, m.j + m.size, bhi) ELSE 0)

MatchedChars(a, b, alo, ahi, blo, bhi) ==
    MatchedAround(a, b, alo, ahi, blo, bhi, FindLongestMatch(a, b, alo, ahi, blo, bhi))

\* ratio(): 2.0 * matches / (len(a) + len(b)), and 1.0 for two empty strings.
Ratio(a, b) ==
    LET total == Len(a) + Len(b)
    IN  IF total = 0 THEN ScoreUnit
        ELSE (2 * MatchedChars(a, b, 0, Len(a), 0, Len(b)) * ScoreUnit) \div total

-----------------------------------------------------------------------------
(* TextMatcher                                                             *)

\* A normalisation that forgets to lower-case.
NormalizeWithoutLower(text) == Strip(text)

_normalize_text(text) == Strip(Lower(text))

\* The forward walk over the name's words: query_index after the loop.
RECURSIVE WordOrderWalk(_, _, _)
WordOrderWalk(query_words, name_words, query_index) ==
    IF name_words = <<>> THEN query_index
    ELSE IF query_index < Len(query_words)
            /\ Head(name_words) = query_words[query_index + 1]
         THEN WordOrderWalk(query_words, Tail(name_words), query_index + 1)
         ELSE WordOrderWalk(query_words, Tail(name_words), query_index)

\* A word-order check that ignores the order.
WordOrderIgnoringOrder(q, name) == ToSet(Split(q)) \subseteq ToSet(Split(name))

_preserves_word_order(q, name) ==
    LET query_words == Split(q)
        name_words == Split(name)
    IN  WordOrderWalk(query_words, name_words, 0) = Len(query_words)

\* The fuzzy path of calculate_relevance_score, before the cap.
FuzzySimilarity(query_clean, name_clean) ==
    Ratio(query_clean, name_clean)
    + (IF ToSet(Split(query_clean)) \subseteq ToSet(Split(name_clean))
       THEN WORD_SUBSET_BONUS ELSE 0)
    + (IF _preserves_word_order(query_clean, name_clean)
       THEN WORD_ORDER_BONUS ELSE 0)

\* A score that forgets the cap at 1.0.
ScoreOfCleanWithoutCap(query_clean, name_clean) ==
    IF query_clean = name_clean THEN ScoreUnit
    ELSE IF Contains(query_clean, name_clean) THEN (95 * ScoreUnit) \div 100
    ELSE IF Contains(name_clean, query_clean) THEN (90 * ScoreUnit) \div 100
    ELSE FuzzySimilarity(query_clean, name_clean)

\* calculate_relevance_score from the normalized strings on.
ScoreOfClean(query_clean, name_clean) ==
    IF query_clean = name_clean THEN ScoreUnit
    ELSE IF Contains(query_clean, name_clean) THEN (95 * ScoreUnit) \div 100
    ELSE IF Contains(name_clean, query_clean) THEN (90 * ScoreUnit) \div 100
    ELSE Min(FuzzySimilarity(query_clean, name_clean), ScoreUnit)

calculate_relevance_score(q, organization_name) ==
    ScoreOfClean(_normalize_text(q), _normalize_text(organization_name))

-----------------------------------------------------------------------------
(* Python and JSON values.  Every value is a record tagged by its type t;  *)
(* an object holds every key of its kind, Absent standing for a key the    *)
(* JSON text does not hold.                                                *)

None == [t |-> "null"]
Absent == [t |-> "absent"]
Unset == [t |-> "unset"]
JStr(s) == [t |-> "str", s |-> s]
JList(items) == [t |-> "list", items |-> items]
JObj(f) == [t |-> "obj", f |-> f]
Raised(exc) == [t |-> "raised", exc |-> exc]

\* bool(v)
Truthy(v) ==
    CASE v.t = "str" -> v.s # <<>>
      [] v.t = "list" -> v.items # <<>>
      [] v.t = "obj" -> \E k \in DOMAIN v.f : v.f[k].t # "absent"
      [] v.t \in {"Address", "OrganizationInfo"} -> TRUE
      [] OTHER -> FALSE

\* d.get(key, default) on a dict d
DictGet(d, key, default) == IF d.f[key].t = "absent" THEN default ELSE d.f[key]

NoArg == None
NoArgs == [number |-> NoArg, name |-> NoArg]

HOVEDENHET == "hovedenhet"
UNDERENHET == "underenhet"

HTTP_OK == 200

-----------------------------------------------------------------------------
(* BRREGClient: parsing.                                                   *)

\* An address parser that demands an address block.
ParseAddressRequiringBlock(address_data) ==
    IF address_data.t # "obj" THEN [ok |-> FALSE, val |-> None]
    ELSE [ok |-> TRUE,
          val |-> [t |-> "Address",
                   street_lines |-> DictGet(address_data, "adresse", JList(<<>>)),
                   postal_code |-> DictGet(address_data, "postnummer", None),
                   city |-> DictGet(address_data, "poststed", None)]]

\* ok is FALSE when address_data.get raises AttributeError.
_parse_address(address_data) ==
    IF ~Truthy(address_data) THEN [ok |-> TRUE, val |-> None]
    ELSE IF address_data.t # "obj" THEN [ok |-> FALSE, val |-> None]
    ELSE LET street_lines == DictGet(address_data, "adresse", JList(<<>>))
         IN  [ok |-> TRUE,
              val |-> [t |-> "Address",
                       street_lines |-> IF Truthy(street_lines) THEN street_lines
                                        ELSE JList(<<>>),
                       postal_code |-> DictGet(address_data, "postnummer", None),
                       city |-> DictGet(address_data, "poststed", None)]]

NAME_DEFAULT ==
    <<"N", "a", "v", "n", " ", "i", "k", "k", "e", " ",
      "t", "i", "l", "g", "j", "e", "n", "g", "e", "l", "i", "g">>

\* The OrganizationInfo parsed from data, or None when an exception was
\* caught (data.get, name.lower() or a block's .get raising AttributeError).
\* q is the query: None for a lookup by number.
_parse_organization_data(data, entity_type, q) ==
    IF data.t # "obj" THEN None
    ELSE LET name == DictGet(data, "navn", JStr(NAME_DEFAULT))
             org_number == DictGet(data, "organisasjonsnummer", JStr(<<"N", "/", "A">>))
             business_address == _parse_address(DictGet(data, "forretningsadresse", None))
             postal_address == _parse_address(DictGet(data, "postadresse", None))
             form == DictGet(data, "organisasjonsform", None)
             code == DictGet(data, "naeringskode1", None)
         IN  IF Truthy(q) /\ name.t # "str" THEN None
             ELSE IF ~business_address.ok \/ ~postal_address.ok THEN None
             ELSE IF Truthy(form) /\ form.t # "obj" THEN None
             ELSE IF Truthy(code) /\ code.t # "obj" THEN None
             ELSE [t |-> "OrganizationInfo",
                   name |-> name,
                   org_number |-> org_number,
                   entity_type |-> entity_type,
                   business_address |-> business_address.val,
                   postal_address |-> postal_address.val,
                   organization_form |->
                       IF Truthy(form) THEN DictGet(form, "beskrivelse", None) ELSE None,
                   industry_code |->
                       IF Truthy(code) THEN DictGet(code, "beskrivelse", None) ELSE None,
                   relevance_score |->
                       IF Truthy(q) THEN calculate_relevance_score(q.s, name.s) ELSE 0]

-----------------------------------------------------------------------------
(* The registry's answers.                                                 *)

MaxMainBatch == 2
MaxSubBatch == 1

Name1 == <<"a", " ", "b">>
Name2 == <<"b", " ", "a">>
OrgNr == JStr(<<"9">>)

AddressBlock(lines, postnummer, poststed) ==
    JObj([adresse |-> lines, postnummer |-> postnummer, poststed |-> poststed])

CodeBlock(beskrivelse) == JObj([kode |-> JStr(<<"k">>), beskrivelse |-> beskrivelse])

RawRecord(navn, forretningsadresse, postadresse, organisasjonsform, naeringskode1) ==
    JObj([navn |-> navn,
          organisasjonsnummer |-> OrgNr,
          forretningsadresse |-> forretningsadresse,
          postadresse |-> postadresse,
          organisasjonsform |-> organisasjonsform,
          naeringskode1 |-> naeringskode1])

\* The raw records the registry's answers are built from:
\*  1  a complete record
\*  2  a record with a name only (no address, form or industry code)
\*  3  not an object
\*  4  a null name
\*  5  an organization form that is a non-empty string
\*  6  an organization form that is the empty string
\*  7  a business address that is a non-empty list
RawSamples ==
    << RawRecord(JStr(Name1),
                 AddressBlock(JList(<<JStr(<<"g">>)>>), JStr(<<"0">>), JStr(<<"o">>)),
                 Absent, CodeBlock(JStr(<<"f">>)), CodeBlock(JStr(<<"i">>))),
       RawRecord(JStr(Name2), Absent, Absent, Absent, Absent),
       JStr(Name1),
       RawRecord(None, Absent, Absent, Absent, Absent),
       RawRecord(JStr(Name1), Absent, Absent, JStr(<<"f">>), Absent),
       RawRecord(JStr(Name1), Absent, Absent, JStr(<<>>), Absent),
       RawRecord(JStr(Name2), JList(<<JStr(<<"g">>)>>), Absent, Absent, Absent) >>

RECURSIVE BatchesUpTo(_)
BatchesUpTo(n) ==
    IF n = 0 THEN {<<>>}
    ELSE LET shorter == BatchesUpTo(n - 1)
         IN  shorter \cup {Append(b, i) : b \in {c \in shorter : Len(c) = n - 1},
                                          i \in 1..Len(RawSamples)}

\* An answer: a network error (or timeout), or an HTTP status with a body of
\* some shape built from the raw records batch names.
NetworkError == [kind |-> "error", status |-> 0, shape |-> "none", batch |-> <<>>]
HttpAnswer(status, shape, batch) ==
    [kind |-> "http", status |-> status, shape |-> shape, batch |-> batch]

FailureAnswers ==
    {NetworkError, HttpAnswer(404, "none", <<>>), HttpAnswer(500, "none", <<>>),
     HttpAnswer(HTTP_OK, "undecodable", <<>>)}

\* Answers of a single-entity endpoint.
LookupAnswers ==
    FailureAnswers \cup {HttpAnswer(HTTP_OK, "record", <<i>>) : i \in 1..Len(RawSamples)}

\* Answers of a search endpoint, with at most n records.
SearchAnswers(n) ==
    FailureAnswers
    \cup {HttpAnswer(HTTP_OK, shape, <<>>) :
             shape \in {"array", "no_embedded", "null_embedded", "null_collection"}}
    \cup {HttpAnswer(HTTP_OK, "collection", b) : b \in BatchesUpTo(n)}

\* A request failed: no answer, or an answer other than HTTP 200.
Failed(answer) == answer.kind = "error" \/ answer.status # HTTP_OK

\* response.json() of a decodable body.
Embedded(endpoint, collection) ==
    JObj([enheter |-> IF endpoint = "enheter" THEN collection ELSE Absent,
          underenheter |-> IF endpoint = "underenheter" THEN collection ELSE Absent])

ResponseJson(answer, endpoint) ==
    CASE answer.shape = "record" -> RawSamples[answer.batch[1]]
      [] answer.shape = "array" -> JList(<<>>)
      [] answer.shape = "no_embedded" -> JObj([_embedded |-> Absent])
      [] answer.shape = "null_embedded" -> JObj([_embedded |-> None])
      [] answer.shape = "null_collection" ->
            JObj([_embedded |-> Embedded(endpoint, None)])
      [] answer.shape = "collection" ->
            JObj([_embedded |->
                    Embedded(endpoint,
                             JList([i \in 1..Len(answer.batch) |-> RawSamples[answer.batch[i]]]))])

-----------------------------------------------------------------------------
(* BRREGClient: the requests.                                              *)

\* One outbound request with its answer; printed is the number of messages
\* on the console when it was sent (the message that announces the query is
\* printed before session.get is called).
Request(op, endpoint, answer) ==
    [op |-> op, endpoint |-> endpoint, answer |-> answer, printed |-> Len(out) + 1]

DecodeFails(answer) ==
    answer.kind = "http" /\ answer.status = HTTP_OK /\ answer.shape = "undecodable"

\* One tier of lookup_by_number: the try block around session.get.
\*   next = "return": the parsed record (or None) is returned;
\*   next = "raise":  response.json() raised an error that is no RequestException;
\*   next = "fall":   the tier has no answer (warned: a RequestException was
\*                    caught and printed).
LookupTier(endpoint, entity_type, answer) ==
    IF answer.kind = "error" \/ (DecodeFails(answer) /\ jsonErrIsRequestException)
    THEN [next |-> "fall", val |-> None, warned |-> TRUE]
    ELSE IF DecodeFails(answer)
    THEN [next |-> "raise", val |-> Raised("ValueError"), warned |-> FALSE]
    ELSE IF answer.status = HTTP_OK
    THEN [next |-> "return",
          val |-> _parse_organization_data(ResponseJson(answer, endpoint), entity_type, None),
          warned |-> FALSE]
    ELSE [next |-> "fall", val |-> None, warned |-> FALSE]

\* What a tier of lookup_by_number does to the state, given its outcome.
LookupTierStep(endpoint, answer, checking, warning, tier) ==
    /\ http' = Append(http, Request("lookup", endpoint, answer))
    /\ out' = out \o <<checking>>
                  \o (IF tier.warned THEN <<warning>> ELSE <<>>)
                  \o (IF tier.next = "return" /\ tier.val.t = "null"
                      THEN <<"warn_parse">> ELSE <<>>)
    /\ pc' = IF tier.next = "fall" /\ endpoint = "enheter" THEN "lookup_sub"
             ELSE "lookup_done"
    /\ ret' = IF tier.next = "fall" /\ endpoint = "enheter" THEN ret ELSE tier.val

\* lookup_by_number, the main-entity tier.
LookupMain ==
    /\ pc = "lookup_main"
    /\ \E answer \in LookupAnswers :
          LookupTierStep("enheter", answer, "checking_main", "warn_main",
                         LookupTier("enheter", HOVEDENHET, answer))
    /\ UNCHANGED <<argv, query, cand, exitCode, address,
                 jsonErrIsRequestException>>

\* lookup_by_number, the sub-entity tier and the final return None.
LookupSub ==
    /\ pc = "lookup_sub"
    /\ \E answer \in LookupAnswers :
          LookupTierStep("underenheter", answer, "checking_sub", "warn_sub",
                         LookupTier("underenheter", UNDERENHET, answer))
    /\ UNCHANGED <<argv, query, cand, exitCode, address,
                 jsonErrIsRequestException>>

\* data.get('_embedded', {}).get(endpoint, []) on the decoded body.
EmbeddedCollection(endpoint, embedded) ==
    IF embedded.t # "obj"
    THEN [exc |-> "AttributeError", val |-> None, warned |-> FALSE]
    ELSE [exc |-> "none", val |-> DictGet(embedded, endpoint, JList(<<>>)), warned |-> FALSE]

CollectionOf(endpoint, data) ==
    IF data.t # "obj"
    THEN [exc |-> "AttributeError", val |-> None, warned |-> FALSE]
    ELSE EmbeddedCollection(endpoint, DictGet(data, "_embedded", Embedded(endpoint, Absent)))

\* exc is "none", or the exception that leaves _search_endpoint; warned:
\* a RequestException was caught and printed.
_search_endpoint(endpoint, answer) ==
    IF answer.kind = "error" \/ (DecodeFails(answer) /\ jsonErrIsRequestException)
    THEN [exc |-> "none", val |-> JList(<<>>), warned |-> TRUE]
    ELSE IF DecodeFails(answer)
    THEN [exc |-> "ValueError", val |-> None, warned |-> FALSE]
    ELSE IF answer.status # HTTP_OK
    THEN [exc |-> "none", val |-> JList(<<>>), warned |-> FALSE]
    ELSE CollectionOf(endpoint, ResponseJson(answer, endpoint))

IsOrganizationInfo(v) == v.t = "OrganizationInfo"
IsNone(v) == v.t = "null"

Warning(got) == IF got.warned THEN <<"warn_search">> ELSE <<>>

\* The loop of search_by_name over what _search_endpoint returned (got):
\* the records parsed, and a warning printed for each one skipped.
ParsedRecords(got, parsed) ==
    [exc |-> "none",
     records |-> SelectSeq(parsed, IsOrganizationInfo),
     msgs |-> Warning(got) \o [i \in 1..Len(SelectSeq(parsed, IsNone)) |-> "warn_parse"]]

\* Iterating None raises TypeError (the bodies drawn hold a list or null as
\* the collection).
RecordsOf(got, entity_type, name) ==
    IF got.exc # "none" THEN [exc |-> got.exc, records |-> <<>>, msgs |-> Warning(got)]
    ELSE IF got.val.t # "list"
    THEN [exc |-> "TypeError", records |-> <<>>, msgs |-> Warning(got)]
    ELSE ParsedRecords(got,
             [i \in 1..Len(got.val.items) |->
                 _parse_organization_data(got.val.items[i], entity_type, JStr(name))])

\* One endpoint of search_by_name: _search_endpoint and the loop that parses
\* what it returned.
SearchEndpointRecords(endpoint, entity_type, answer, name) ==
    RecordsOf(_search_endpoint(endpoint, answer), entity_type, name)

\* A sort key that leaves out reverse=True.
SortKeyLessAscending(x, y) ==
    \/ y.relevance_score < x.relevance_score
    \/ /\ x.relevance_score = y.relevance_score
       /\ y.entity_type # HOVEDENHET
       /\ x.entity_type = HOVEDENHET

\* The order of the sort key (relevance_score, entity_type == HOVEDENHET).
SortKeyLess(x, y) ==
    \/ x.relevance_score < y.relevance_score
    \/ /\ x.relevance_score = y.relevance_score
       /\ x.entity_type # HOVEDENHET
       /\ y.entity_type = HOVEDENHET

\* list.sort(key=..., reverse=True): a stable sort, highest key first;
\* records of equal key keep their order.
RECURSIVE InsertByKey(_, _)
InsertByKey(sorted, x) ==
    IF sorted = <<>> THEN <<x>>
    ELSE IF SortKeyLess(Head(sorted), x) THEN <<x>> \o sorted
    ELSE <<Head(sorted)>> \o InsertByKey(Tail(sorted), x)

RECURSIVE SortDescending(_)
SortDescending(records) ==
    IF records = <<>> THEN <<>>
    ELSE InsertByKey(SortDescending(SubSeq(records, 1, Len(records) - 1)),
                     records[Len(records)])

\* What the main-entity endpoint's records do to the state.
SearchMainStep(answer, main_results) ==
    /\ http' = Append(http, Request("search", "enheter", answer))
    /\ out' = out \o <<"searching_main">> \o main_results.msgs
    /\ pc' = IF main_results.exc = "none" THEN "search_sub" ELSE "search_done"
    /\ ret' = IF main_results.exc = "none" THEN JList(main_results.records)
              ELSE Raised(main_results.exc)

\* search_by_name, the main-entity endpoint.
SearchMain ==
    /\ pc = "search_main"
    /\ \E answer \in SearchAnswers(MaxMainBatch) :
          SearchMainStep(answer,
                         SearchEndpointRecords("enheter", HOVEDENHET, answer, query))
    /\ UNCHANGED <<argv, query, cand, exitCode, address,
                 jsonErrIsRequestException>>

\* What the sub-entity endpoint's records do to the state.
SearchSubStep(answer, sub_results) ==
    /\ http' = Append(http, Request("search", "underenheter", answer))
    /\ out' = out \o <<"searching_sub">> \o sub_results.msgs
    /\ pc' = "search_done"
    /\ ret' = IF sub_results.exc = "none"
              THEN JList(SortDescending(ret.items \o sub_results.records))
              ELSE Raised(sub_results.exc)

\* search_by_name, the sub-entity endpoint, the sort and the return.
SearchSub ==
    /\ pc = "search_sub"
    /\ \E answer \in SearchAnswers(MaxSubBatch) :
          SearchSubStep(answer,
                        SearchEndpointRecords("underenheter", UNDERENHET, answer, query))
    /\ UNCHANGED <<argv, query, cand, exitCode, address,
                 jsonErrIsRequestException>>

-----------------------------------------------------------------------------
(* InputValidator and main().                                              *)

OrgNumberDigits == 9
MinNameLength == 3
MaxNumberLen == 9

Digits == {"0", "1", "2", "3", "4", "5", "6", "7", "8", "9"}

\* str.isdigit()
IsDigitString(s) == s # <<>> /\ \A i \in 1..Len(s) : s[i] \in Digits

validate_org_number(org_number) ==
    IsDigitString(org_number) /\ Len(org_number) = OrgNumberDigits

validate_organization_name(name) == Len(Strip(name)) >= MinNameLength

\* The values of --number and of --name that are tried: a body of digits
\* and letters, bare or with a space before it, after it or both.
Padded(bodies) ==
    bodies \cup {<<" ">> \o s : s \in bodies} \cup {s \o <<" ">> : s \in bodies}
           \cup {<<" ">> \o s \o <<" ">> : s \in bodies}

NumberArgs == Padded(StringsUpTo({"7", "x"}, MaxNumberLen))
NameArgs == StringsUpTo(Chars, MaxQueryLen)

\* Whether main() is running (the client is not called on its own).
InMain == argv.number.t # "null" \/ argv.name.t # "null"

InitMain ==
    /\ pc = "main_start"
    /\ \/ \E s \in NumberArgs : argv = [number |-> JStr(s), name |-> NoArg]
       \/ \E s \in NameArgs : argv = [number |-> NoArg, name |-> JStr(s)]
    /\ query = <<>>
    /\ cand = <<>>
    /\ http = <<>>
    /\ out = <<>>
    /\ ret = Unset
    /\ exitCode = "running"
    /\ address = None
    /\ jsonErrIsRequestException \in BOOLEAN

\* main() up to the call of the client: the banner, the choice of the
\* operation and the validation of its argument.
MainStart ==
    /\ pc = "main_start"
    /\ IF Truthy(argv.number)
       THEN LET org_number == Strip(argv.number.s)
            IN  IF ~validate_org_number(org_number)
                THEN /\ out' = out \o <<"banner", "error_number">>
                     /\ exitCode' = 1
                     /\ pc' = "exited"
                     /\ query' = query
                ELSE /\ out' = out \o <<"banner", "looking_up">>
                     /\ exitCode' = exitCode
                     /\ pc' = "lookup_main"
                     /\ query' = org_number
       ELSE IF Truthy(argv.name)
       THEN LET org_name == Strip(argv.name.s)
            IN  IF ~validate_organization_name(org_name)
                THEN /\ out' = out \o <<"banner", "error_name">>
                     /\ exitCode' = 1
                     /\ pc' = "exited"
                     /\ query' = query
                ELSE /\ out' = out \o <<"banner", "searching">>
                     /\ exitCode' = exitCode
                     /\ pc' = "search_main"
                     /\ query' = org_name
       ELSE /\ out' = out \o <<"banner", "completed">>
            /\ exitCode' = 0
            /\ pc' = "exited"
            /\ query' = query
    /\ UNCHANGED <<argv, cand, http, ret, address,
                 jsonErrIsRequestException>>

\* main() after lookup_by_number.
MainAfterLookup ==
    /\ pc = "lookup_done"
    /\ InMain
    /\ pc' = "exited"
    /\ IF ret.t = "raised"
       THEN out' = out \o <<"unexpected_error">> /\ exitCode' = 1
       ELSE IF ~Truthy(ret)
       THEN out' = out \o <<"not_found">> /\ exitCode' = 1
       ELSE out' = out \o <<"found_single", "completed">> /\ exitCode' = 0
    /\ UNCHANGED <<argv, query, cand, http, ret, address,
                 jsonErrIsRequestException>>

\* main() after search_by_name.
MainAfterSearch ==
    /\ pc = "search_done"
    /\ InMain
    /\ pc' = "exited"
    /\ IF ret.t = "raised"
       THEN out' = out \o <<"unexpected_error">> /\ exitCode' = 1
       ELSE IF ~Truthy(ret)
       THEN out' = out \o <<"no_results">> /\ exitCode' = 1
       ELSE out' = out \o <<"found_multiple", "completed">> /\ exitCode' = 0
    /\ UNCHANGED <<argv, query, cand, http, ret, address,
                 jsonErrIsRequestException>>

Next ==
    \/ MainStart
    \/ LookupMain
    \/ LookupSub
    \/ MainAfterLookup
    \/ SearchMain
    \/ SearchSub
    \/ MainAfterSearch

Spec == InitMain /\ [][Next]_vars

-----------------------------------------------------------------------------
(* search_by_name called on its own.                                       *)

SearchQueries == {<<>>, <<"a", " ", "B">>}

InitSearch ==
    /\ pc = "search_main"
    /\ argv = NoArgs
    /\ query \in SearchQueries
    /\ cand = <<>>
    /\ http = <<>>
    /\ out = <<>>
    /\ ret = Unset
    /\ exitCode = "running"
    /\ address = None
    /\ jsonErrIsRequestException \in BOOLEAN

NextSearch == SearchMain \/ SearchSub

SpecSearch == InitSearch /\ [][NextSearch]_vars

-----------------------------------------------------------------------------
(* TextMatcher called on its own: any query against any candidate name.    *)

InitScore ==
    /\ pc = "tm_start"
    /\ argv = NoArgs
    /\ query \in StringsUpTo(Chars, MaxQueryLen)
    /\ cand \in StringsUpTo(Chars, MaxNameLen)
    /\ http = <<>>
    /\ out = <<>>
    /\ ret = Unset
    /\ exitCode = "running"
    /\ address = None
    /\ jsonErrIsRequestException = TRUE

CallScore ==
    /\ pc = "tm_start"
    /\ pc' = "tm_scored"
    /\ ret' = calculate_relevance_score(query, cand)
    /\ UNCHANGED <<argv, query, cand, http, out, exitCode, address,
                 jsonErrIsRequestException>>

CallWordOrder ==
    /\ pc = "tm_start"
    /\ pc' = "tm_ordered"
    /\ ret' = _preserves_word_order(query, cand)
    /\ UNCHANGED <<argv, query, cand, http, out, exitCode, address,
                 jsonErrIsRequestException>>

NextScore == CallScore \/ CallWordOrder

SpecScore == InitScore /\ [][NextScore]_vars

-----------------------------------------------------------------------------
(* Properties of TextMatcher.                                              *)

\* The lower-cased, trimmed form of s, stated without Strip and Lower: the
\* stretch from the first to the last non-space character, lower-cased.
NormalForm(s) ==
    LET nonsp == {i \in 1..Len(s) : ~IsSpace(s[i])}
    IN  IF nonsp = {} THEN <<>>
        ELSE LET lo == CHOOSE i \in nonsp : \A k \in nonsp : i <= k
                 hi == CHOOSE i \in nonsp : \A k \in nonsp : k <= i
             IN  [k \in 1..(hi - lo + 1) |-> LowerChar(s[lo + k - 1])]

\* Whether the pair takes the fuzzy path: not equal, neither contains the other.
FuzzyPath(q, name) ==
    LET nq == NormalForm(q)
        nn == NormalForm(name)
    IN  nq # nn /\ ~Contains(nq, nn) /\ ~Contains(nn, nq)

\* C5: calculate_relevance_score decides by the normalized strings in strict
\* order: 1.0 when they are equal, else 0.95 when the query is a substring of
\* the candidate (the empty query included), else 0.9 when the candidate is a
\* substring of the query, and only otherwise the capped fuzzy similarity;
\* the score does not change with the letter case or the surrounding
\* whitespace of either argument.
C5_ScoreByNormalizedOrder ==
    pc = "tm_scored" =>
        LET nq == NormalForm(query)
            nn == NormalForm(cand)
        IN  /\ nq = nn => ret = ScoreUnit
            /\ nq # nn /\ Contains(nq, nn) => ret = (95 * ScoreUnit) \div 100
            /\ nq # nn /\ ~Contains(nq, nn) /\ Contains(nn, nq)
                  => ret = (90 * ScoreUnit) \div 100
            /\ FuzzyPath(query, cand)
                  => ret = Min(FuzzySimilarity(nq, nn), ScoreUnit)
            /\ nq = <<>> /\ nn # <<>> => ret = (95 * ScoreUnit) \div 100
            /\ calculate_relevance_score(<<" ">> \o Upper(query), Lower(cand) \o <<" ">>) = ret
            /\ calculate_relevance_score(Lower(query) \o <<" ">>, <<" ">> \o Upper(cand)) = ret

\* A query that normalization changes (upper case and surrounding space) was
\* scored 0.95 as a proper substring of the candidate.
C5_Witness ==
    /\ pc = "tm_scored"
    /\ query = <<" ", "B">>
    /\ cand = <<"a", " ", "B", " ">>
    /\ ret = (95 * ScoreUnit) \div 100

\* C6: for every pair of strings, the empty ones included (CallScore is
\* enabled on every pair), the score returned lies in [0.0, 1.0]; a fuzzy
\* similarity whose bonuses carry it above 1.0 is returned as exactly 1.0.
C6_ScoreInUnitInterval ==
    pc = "tm_scored" =>
        /\ ret \in 0..ScoreUnit
        /\ FuzzyPath(query, cand)
           /\ FuzzySimilarity(NormalForm(query), NormalForm(cand)) > ScoreUnit
              => ret = ScoreUnit

\* A fuzzy pair whose ratio plus both bonuses exceeds 1.0 was scored 1.0.
C6_Witness ==
    /\ pc = "tm_scored"
    /\ FuzzyPath(query, cand)
    /\ Ratio(NormalForm(query), NormalForm(cand)) + WORD_SUBSET_BONUS + WORD_ORDER_BONUS
          > ScoreUnit
    /\ ret = ScoreUnit

\* Whether the sequence ws is a subsequence of the sequence ns: there is a
\* strictly increasing choice of positions of ns that spells ws.
IsSubsequence(ws, ns) ==
    \E f \in [1..Len(ws) -> 1..Len(ns)] :
        /\ \A i \in 1..Len(ws) : ns[f[i]] = ws[i]
        /\ \A i \in 1..(Len(ws) - 1) : f[i] < f[i + 1]

\* C10: _preserves_word_order returns true exactly when the query's word
\* sequence is a subsequence (in order, gaps allowed, each candidate word
\* used at most once) of the candidate's word sequence, and on the fuzzy
\* path the 0.1 bonus is added exactly when it does.
C10_WordOrderIsSubsequence ==
    /\ pc = "tm_ordered" => ret = IsSubsequence(Split(query), Split(cand))
    /\ pc = "tm_scored" /\ FuzzyPath(query, cand) =>
          LET nq == NormalForm(query)
              nn == NormalForm(cand)
              subset == IF ToSet(Split(nq)) \subseteq ToSet(Split(nn))
                        THEN WORD_SUBSET_BONUS ELSE 0
              order == IF IsSubsequence(Split(nq), Split(nn))
                       THEN WORD_ORDER_BONUS ELSE 0
          IN  ret = Min(Ratio(nq, nn) + subset + order, ScoreUnit)

\* A two-word query was accepted against a three-word candidate that holds
\* its words in order with another word between them.
C10_Witness ==
    /\ pc = "tm_ordered"
    /\ query = <<"a", " ", "a">>
    /\ cand = <<"a", " ", "B", " ", "a">>
    /\ ret = TRUE

-----------------------------------------------------------------------------
(* Properties of BRREGClient.                                              *)

Printed(msg) == \E i \in 1..Len(out) : out[i] = msg

EntityTypeOf(endpoint) == IF endpoint = "enheter" THEN HOVEDENHET ELSE UNDERENHET

\* Whether xs and ys hold the same elements the same number of times.
Occurrences(xs, x) == Cardinality({i \in 1..Len(xs) : xs[i] = x})
IsPermutation(xs, ys) ==
    /\ Len(xs) = Len(ys)
    /\ \A i \in 1..Len(xs) : Occurrences(xs, xs[i]) = Occurrences(ys, xs[i])

\* C1: in every run of lookup_by_number the MAIN endpoint is queried first,
\* the SUB endpoint is queried exactly when the MAIN query answered non-200
\* or raised a network error (never after a MAIN HTTP 200), and at most two
\* requests are sent before the operation terminates.
C1_LookupTiers ==
    (http # <<>> /\ http[1].op = "lookup") =>
        /\ Len(http) <= 2
        /\ http[1].endpoint = "enheter"
        /\ Len(http) = 2 =>
              http[2].endpoint = "underenheter" /\ Failed(http[1].answer)
        /\ pc \in {"lookup_done", "exited"} /\ Failed(http[1].answer) => Len(http) = 2

\* C2: the outcome of lookup_by_number follows the tier that answered: an
\* HTTP 200 from MAIN always yields a record of kind MAIN, an HTTP 200 from
\* SUB (after a MAIN non-200 or network error) always yields a record of
\* kind SUB, and the absent result is returned only when both tiers were
\* queried and both failed.
C2_OutcomeFollowsTier ==
    pc = "lookup_done" =>
        /\ ~Failed(http[1].answer) =>
              IsOrganizationInfo(ret) /\ ret.entity_type = HOVEDENHET
        /\ Len(http) = 2 /\ Failed(http[1].answer) /\ ~Failed(http[2].answer) =>
              IsOrganizationInfo(ret) /\ ret.entity_type = UNDERENHET
        /\ IsNone(ret) =>
              Len(http) = 2 /\ Failed(http[1].answer) /\ Failed(http[2].answer)

\* The records of a request's answer that parse, in the answer's order.
ParsedOf(req) ==
    IF req.answer.shape # "collection" THEN <<>>
    ELSE SelectSeq([i \in 1..Len(req.answer.batch) |->
                       _parse_organization_data(RawSamples[req.answer.batch[i]],
                                                EntityTypeOf(req.endpoint), JStr(query))],
                   IsOrganizationInfo)

\* C3: the sequence search_by_name returns is ordered by non-increasing
\* relevance score, among records of equal score every MAIN record precedes
\* every SUB record, and it is a permutation of the records of both
\* endpoints that parsed.
C3_SortedPermutation ==
    (pc = "search_done" /\ ret.t = "list") =>
        /\ \A i, j \in 1..Len(ret.items) :
              i < j =>
                 /\ ret.items[i].relevance_score >= ret.items[j].relevance_score
                 /\ (ret.items[i].relevance_score = ret.items[j].relevance_score
                     /\ ret.items[j].entity_type = HOVEDENHET)
                       => ret.items[i].entity_type = HOVEDENHET
        /\ IsPermutation(ret.items, ParsedOf(http[1]) \o ParsedOf(http[2]))

\* A search returned three records that the sort had to reorder: a MAIN and
\* a SUB record of equal score, in that order, before a MAIN record of lower
\* score that the MAIN endpoint had listed first.
C3_Witness ==
    /\ pc = "search_done"
    /\ ret.t = "list"
    /\ Len(ret.items) = 3
    /\ http[1].answer.batch = <<2, 1>>
    /\ ret.items[1].entity_type = HOVEDENHET
    /\ ret.items[2].entity_type = UNDERENHET
    /\ ret.items[1].relevance_score = ret.items[2].relevance_score
    /\ ret.items[3].relevance_score < ret.items[2].relevance_score

\* A query of an endpoint failed: a network error or timeout, a status other
\* than 200, or a 200 whose body cannot be decoded or is not of the shape
\* {"_embedded": {endpoint: [...]}} (a body without _embedded holds no
\* records and is no failure).
EndpointFailed(answer) ==
    \/ Failed(answer)
    \/ answer.shape \in {"undecodable", "array", "null_embedded", "null_collection"}

\* C4: in search_by_name a failure of one endpoint query never prevents the
\* records of the other endpoint from being returned and never surfaces as
\* an error; when both endpoints fail the result is the empty sequence.
C4_FailureIsolated ==
    pc = "search_done" =>
        /\ ret.t # "raised"
        /\ Len(http) = 2
        /\ \A k \in 1..Len(http) :
              ~EndpointFailed(http[k].answer) =>
                 \A i \in 1..Len(ParsedOf(http[k])) :
                    Occurrences(ret.items, ParsedOf(http[k])[i]) > 0
        /\ (\A k \in 1..Len(http) : EndpointFailed(http[k].answer)) => ret = JList(<<>>)

OptionalBlocks == {"forretningsadresse", "postadresse", "organisasjonsform", "naeringskode1"}

\* A raw record of malformed shape: not an object, a null name, or a block
\* (address, organization form, industry code) that is present and not an
\* object.
Malformed(raw) ==
    \/ raw.t # "obj"
    \/ raw.f["navn"].t = "null"
    \/ \E b \in OptionalBlocks : raw.f[b].t \notin {"absent", "null", "obj"}

\* A raw record that search_by_name cannot parse for the query q: not an
\* object, a name that is no string while q is not empty, or a block that is
\* a non-empty value other than an object (an empty string or list counts
\* as no block).
Unparseable(raw, q) ==
    \/ raw.t # "obj"
    \/ q # <<>> /\ raw.f["navn"].t \notin {"absent", "str"}
    \/ \E b \in OptionalBlocks : Truthy(raw.f[b]) /\ raw.f[b].t # "obj"

\* What is to be seen of a raw record in the result: its name, its kind,
\* and which of its optional fields are absent.
DescriptionOf(raw) == IF Truthy(raw) THEN DictGet(raw, "beskrivelse", None) ELSE None

RawView(raw, entity_type) ==
    << DictGet(raw, "navn", JStr(NAME_DEFAULT)), entity_type,
       ~Truthy(raw.f["forretningsadresse"]), ~Truthy(raw.f["postadresse"]),
       DescriptionOf(raw.f["organisasjonsform"]), DescriptionOf(raw.f["naeringskode1"]) >>

RecordView(r) ==
    << r.name, r.entity_type, r.business_address.t = "null", r.postal_address.t = "null",
       r.organization_form, r.industry_code >>

RawOf(req) ==
    IF req.answer.shape # "collection" THEN <<>>
    ELSE [i \in 1..Len(req.answer.batch) |-> RawSamples[req.answer.batch[i]]]

WellFormed(raw) == ~Malformed(raw)
Parseable(raw) == ~Unparseable(raw, query)

ViewsOf(req, raws) == [i \in 1..Len(raws) |-> RawView(raws[i], EntityTypeOf(req.endpoint))]

WellFormedViews(req) == ViewsOf(req, SelectSeq(RawOf(req), WellFormed))
ParseableViews(req) == ViewsOf(req, SelectSeq(RawOf(req), Parseable))

ResultViews == [i \in 1..Len(ret.items) |-> RecordView(ret.items[i])]

-----------------------------------------------------------------------------
(* Properties of main().                                                   *)

\* The value is not exactly 9 digits (surrounding whitespace aside).
NotNineDigits(s) ==
    ~(Len(Strip(s)) = OrgNumberDigits /\ \A i \in 1..Len(Strip(s)) : Strip(s)[i] \in Digits)

InvalidArgument ==
    \/ argv.number.t = "str" /\ NotNineDigits(argv.number.s)
    \/ argv.name.t = "str" /\ Len(Strip(argv.name.s)) < MinNameLength

\* C8: a run whose --number value is not exactly 9 digits, or whose --name
\* value has fewer than 3 characters after trimming (the empty string
\* included), reports the validation error, exits with code 1, sends no
\* HTTP request and never reaches "completed successfully"; exit code 0 is
\* reached only after a successful lookup or search.
C8_InvalidInputRejected ==
    /\ InvalidArgument => http = <<>> /\ ~Printed("completed")
    /\ InvalidArgument /\ pc = "exited" =>
          exitCode = 1 /\ (Printed("error_number") \/ Printed("error_name"))
    /\ pc = "exited" /\ exitCode = 0 =>
          Printed("found_single") \/ Printed("found_multiple")

\* C9: every failed query (network error, timeout or non-200 status) is
\* followed by a message to the user before the run ends, and a name search
\* in which one endpoint query failed while the other returned records never
\* presents those records without an indication that the result is partial.
C9_FailuresAreReported ==
    pc = "exited" =>
        /\ \A i \in 1..Len(http) : Failed(http[i].answer) => Len(out) > http[i].printed
        /\ (/\ Len(http) = 2
            /\ http[1].op = "search"
            /\ Failed(http[1].answer) # Failed(http[2].answer)
            /\ Printed("found_multiple"))
              => Printed("warn_search")

-----------------------------------------------------------------------------
(* Address.format called on its own: any address of the bounded shapes.    *)

MaxLineLen == 2
MaxStreetLines == 2

LineChars == {"a", " "}

ADDRESS_UNAVAILABLE ==
    <<"A", "d", "r", "e", "s", "s", "e", " ", "i", "k", "k", "e", " ",
      "t", "i", "l", "g", "j", "e", "n", "g", "e", "l", "i", "g">>

\* The loop over street_lines: the parts collected once the lines left have
\* been visited.
RECURSIVE StreetParts(_, _)
StreetParts(lines, parts) ==
    IF lines = <<>> THEN parts
    ELSE StreetParts(Tail(lines),
                     IF Truthy(Head(lines)) /\ Strip(Head(lines).s) # <<>>
                     THEN Append(parts, Strip(Head(lines).s))
                     ELSE parts)

\* The postal code with the city, as the list of parts it adds.
PostalPart(postal_code, city) ==
    IF ~Truthy(postal_code) THEN <<>>
    ELSE IF Truthy(city) THEN <<postal_code.s \o <<" ">> \o city.s>>
    ELSE <<postal_code.s>>

\* sep.join(parts)
RECURSIVE Join(_, _)
Join(sep, parts) ==
    IF parts = <<>> THEN <<>>
    ELSE IF Len(parts) = 1 THEN parts[1]
    ELSE parts[1] \o sep \o Join(sep, Tail(parts))

\* A last line that joins the parts whether or not there are any.
JoinAlways(parts) == Join(<<",", " ">>, parts)

\* ", ".join(parts) if parts else "Adresse ikke tilgjengelig"
JoinOrUnavailable(parts) ==
    IF parts # <<>> THEN Join(<<",", " ">>, parts) ELSE ADDRESS_UNAVAILABLE

\* Address.format
format(self) ==
    IF ~Truthy(self.street_lines) /\ ~Truthy(self.postal_code) THEN ADDRESS_UNAVAILABLE
    ELSE JoinOrUnavailable(StreetParts(self.street_lines.items, <<>>)
                           \o PostalPart(self.postal_code, self.city))

\* The street lines drawn: strings, empty and blank ones included, and null.
StreetLineValues == {JStr(s) : s \in StringsUpTo(LineChars, MaxLineLen)} \cup {None}

RECURSIVE ListsUpTo(_, _)
ListsUpTo(values, n) ==
    IF n = 0 THEN {<<>>}
    ELSE LET shorter == ListsUpTo(values, n - 1)
         IN  shorter \cup {Append(l, v) : l \in {k \in shorter : Len(k) = n - 1},
                                          v \in values}

PostalCodeValues == {None, JStr(<<>>), JStr(<<" ">>), JStr(<<"0">>)}
CityValues == {None, JStr(<<>>), JStr(<<"o">>)}

Addresses ==
    {[t |-> "Address", street_lines |-> JList(l), postal_code |-> p, city |-> c] :
        l \in ListsUpTo(StreetLineValues, MaxStreetLines),
        p \in PostalCodeValues, c \in CityValues}

InitFormat ==
    /\ pc = "fmt_start"
    /\ argv = NoArgs
    /\ query = <<>>
    /\ cand = <<>>
    /\ http = <<>>
    /\ out = <<>>
    /\ ret = Unset
    /\ exitCode = "running"
    /\ address \in Addresses
    /\ jsonErrIsRequestException = TRUE

CallFormat ==
    /\ pc = "fmt_start"
    /\ pc' = "fmt_done"
    /\ ret' = format(address)
    /\ UNCHANGED <<argv, query, cand, http, out, exitCode, address,
                   jsonErrIsRequestException>>

NextFormat == CallFormat

SpecFormat == InitFormat /\ [][NextFormat]_vars

-----------------------------------------------------------------------------
(* Properties of Address.format.                                           *)

\* A street line that is a string with a character other than whitespace.
NonBlankLine(line) == line.t = "str" /\ \E i \in 1..Len(line.s) : ~IsSpace(line.s[i])

\* s without its leading and trailing whitespace: the stretch from the first
\* to the last character that is no whitespace.
Trimmed(s) ==
    LET nonsp == {i \in 1..Len(s) : ~IsSpace(s[i])}
    IN  IF nonsp = {} THEN <<>>
        ELSE LET lo == CHOOSE i \in nonsp : \A k \in nonsp : i <= k
                 hi == CHOOSE i \in nonsp : \A k \in nonsp : k <= i
             IN  [k \in 1..(hi - lo + 1) |-> s[lo + k - 1]]

Present(v) == v.t = "str" /\ v.s # <<>>

\* The non-empty list of parts, each followed by ", " but the last.
RECURSIVE CommaSeparated(_)
CommaSeparated(parts) ==
    IF Len(parts) = 1 THEN parts[1]
    ELSE CommaSeparated(SubSeq(parts, 1, Len(parts) - 1))
         \o <<",", " ">> \o parts[Len(parts)]

NonBlankLines == SelectSeq(address.street_lines.items, NonBlankLine)

ExpectedParts ==
    [i \in 1..Len(NonBlankLines) |-> Trimmed(NonBlankLines[i].s)]
    \o (IF ~Present(address.postal_code) THEN <<>>
        ELSE IF Present(address.city)
        THEN <<address.postal_code.s \o <<" ">> \o address.city.s>>
        ELSE <<address.postal_code.s>>)

\* C11: for every address Address.format never returns the empty string: it
\* returns 'Adresse ikke tilgjengelig' when there is no non-blank street
\* line and no postal code, and otherwise the trimmed non-blank street lines
\* in their order followed by the postal code (with ' ' and the city only
\* when a city is present), all joined by ', '.
C11_FormatAddress ==
    pc = "fmt_done" =>
        /\ ret # <<>>
        /\ (NonBlankLines = <<>> /\ ~Present(address.postal_code))
              => ret = ADDRESS_UNAVAILABLE
        /\ ~(NonBlankLines = <<>> /\ ~Present(address.postal_code))
              => ret = CommaSeparated(ExpectedParts)

\* Two street lines, one padded and one blank, with a postal code and a
\* city, were formatted as the trimmed line, the postal code and the city.
C11_Witness ==
    /\ pc = "fmt_done"
    /\ address.street_lines = JList(<<JStr(<<" ", "a">>), JStr(<<" ">>)>>)
    /\ address.postal_code = JStr(<<"0">>)
    /\ address.city = JStr(<<"o">>)
    /\ ret = <<"a", ",", " ", "0", " ", "o">>

-----------------------------------------------------------------------------
(* The score of an exact match.                                            *)

\* C12: calculate_relevance_score returns 1.0 only when the normalized query
\* equals the normalized candidate; every pair that reaches the fuzzy path
\* (not equal, neither a substring of the other) scores strictly below 1.0,
\* so that a name that is not identical never ties with an exact match.
C12_OnlyExactMatchScoresOne ==
    pc = "tm_scored" =>
        /\ ret = ScoreUnit => NormalForm(query) = NormalForm(cand)
        /\ FuzzyPath(query, cand) => ret < ScoreUnit

====
